---- MODULE Spec2Model ----
(***************************************************************************)
(* Model of the GenericBro finder backend (genericbro-backend):            *)
(*   routers/finder.py   - the four HTTP handlers and their helpers        *)
(*   models/schemas.py   - request / record validation                     *)
(* The hosted table is the variable `store`; every handler is one action   *)
(* that reads the store, and the last response is kept in `resp`.          *)
(*                                                                         *)
(* Strings are sequences of one-character strings.  An Optional value is a *)
(* sequence of length 0 (None) or 1 (the value).  A dict is a function     *)
(* whose DOMAIN is its key set, so an omitted key is a missing argument.   *)
(***************************************************************************)
EXTENDS Integers, Sequences, FiniteSets, TLC

VARIABLES store, cache, request, resp, nreq

vars == <<store, cache, request, resp, nreq>>

(***************************************************************************)
(* Bounds of the model                                                     *)
(***************************************************************************)
\* longest table the model starts from (more than MAX_RESULTS rows)
MaxRows == 17
\* number of suggestion requests served in one behaviour
MaxReq == 2
\* largest price of a raw record handed to the record mapper on its own
MaxPrice == 16

(***************************************************************************)
(* Python values                                                           *)
(***************************************************************************)
None == << >>
Some(x) == <<x>>
IsNone(o) == o = << >>
Val(o) == o[1]

Min(a, b) == IF a <= b THEN a ELSE b

\* code points of the characters used (str comparison is by code point)
Ord(c) ==
  CASE c = " " -> 32 [] c = "'" -> 39 [] c = "-" -> 45
    [] c = "1" -> 49 [] c = "2" -> 50
    [] c = "A" -> 65 [] c = "B" -> 66 [] c = "C" -> 67 [] c = "D" -> 68
    [] c = "G" -> 71 [] c = "X" -> 88
    [] c = "a" -> 97 [] c = "b" -> 98 [] c = "c" -> 99 [] c = "d" -> 100
    [] c = "g" -> 103 [] c = "m" -> 109 [] c = "x" -> 120 [] c = "y" -> 121

\* str.lower() on one character
LowerChar(c) ==
  CASE c = "A" -> "a" [] c = "B" -> "b" [] c = "C" -> "c" [] c = "D" -> "d"
    [] c = "G" -> "g" [] c = "X" -> "x" [] OTHER -> c

\* str.lower()
Lower(s) == [i \in 1..Len(s) |-> LowerChar(s[i])]

IsSpace(c) == c = " "

RECURSIVE LStrip(_)
LStrip(s) == IF s # << >> /\ IsSpace(Head(s)) THEN LStrip(Tail(s)) ELSE s

RECURSIVE RStrip(_)
RStrip(s) ==
  IF s # << >> /\ IsSpace(s[Len(s)]) THEN RStrip(SubSeq(s, 1, Len(s) - 1)) ELSE s

\* str.strip()
Strip(s) == LStrip(RStrip(s))

\* str.split(sep) for a one-character separator: the list of parts
RECURSIVE SplitOn(_, _)
SplitOn(s, sep) ==
  IF \A i \in 1..Len(s) : s[i] # sep THEN <<s>>
  ELSE LET k == CHOOSE i \in 1..Len(s) : s[i] = sep /\ \A j \in 1..(i - 1) : s[j] # sep
       IN <<SubSeq(s, 1, k - 1)>> \o SplitOn(SubSeq(s, k + 1, Len(s)), sep)

\* sep.join(parts)
RECURSIVE Join(_, _)
Join(parts, sep) ==
  IF parts = << >> THEN << >>
  ELSE IF Len(parts) = 1 THEN parts[1]
  ELSE parts[1] \o sep \o Join(Tail(parts), sep)

\* str.split() with no argument: the whitespace-separated words
RECURSIVE Words(_)
Words(s) ==
  LET t == LStrip(s) IN
  IF t = << >> THEN << >>
  ELSE IF \A i \in 1..Len(t) : ~IsSpace(t[i]) THEN <<t>>
  ELSE LET k == CHOOSE i \in 1..Len(t) : IsSpace(t[i]) /\ \A j \in 1..(i - 1) : ~IsSpace(t[j])
       IN <<SubSeq(t, 1, k - 1)>> \o Words(SubSeq(t, k + 1, Len(t)))

\* str.replace("'", "''")
RECURSIVE DoubleQuotes(_)
DoubleQuotes(s) ==
  IF s = << >> THEN << >>
  ELSE (IF Head(s) = "'" THEN <<"'", "'">> ELSE <<Head(s)>>) \o DoubleQuotes(Tail(s))

\* s < t for str (lexicographic by code point)
RECURSIVE StrLess(_, _)
StrLess(s, t) ==
  IF t = << >> THEN FALSE
  ELSE IF s = << >> THEN TRUE
  ELSE IF Ord(Head(s)) # Ord(Head(t)) THEN Ord(Head(s)) < Ord(Head(t))
  ELSE StrLess(Tail(s), Tail(t))

\* pat occurs in s as a substring
Contains(s, pat) ==
  \E i \in 0..(Len(s) - Len(pat)) : SubSeq(s, i + 1, i + Len(pat)) = pat

(***************************************************************************)
(* routers/finder.py: value cleaning                                       *)
(***************************************************************************)
MAX_RESULTS == 15

clean_search_value(value) ==
  IF value = << >> THEN << >>
  ELSE LET parts == SplitOn(Strip(value), "-")
           stripped == [i \in 1..Len(parts) |-> Strip(parts[i])]
       IN DoubleQuotes(Join(stripped, <<"-">>))

clean_type_value(value) ==
  IF value = << >> THEN << >> ELSE Join(Words(value), <<" ">>)

(***************************************************************************)
(* The hosted table (external collaborator): column names, query interface *)
(***************************************************************************)
ColName == "Name"
ColFormulation == "Formulation"
ColType == "Type"
ColDosage == "Dosage"
ColBranded == "Cost of branded"
ColGeneric == "Cost of generic"
ColDifference == "Cost difference"
ColSavings == "Savings"
ColUses == "Uses"
ColSideEffects == "Side Effects"

\* one row of the table as the client returns it: a dict column -> value
MkRow(n, f, t, d, b, g, cd, sv, u) ==
  [k \in {ColName, ColFormulation, ColType, ColDosage, ColBranded, ColGeneric,
          ColDifference, ColSavings, ColUses, ColSideEffects} |->
     CASE k = ColName -> n [] k = ColFormulation -> f [] k = ColType -> t
       [] k = ColDosage -> d [] k = ColBranded -> b [] k = ColGeneric -> g
       [] k = ColDifference -> cd [] k = ColSavings -> sv [] k = ColUses -> u
       [] OTHER -> Some(<<"s">>)]

\* data[key] = value
DictSet(data, key, value) ==
  [k \in DOMAIN data \cup {key} |-> IF k = key THEN value ELSE data[k]]

\* a query under construction: supabase.table(MEDICINES_TABLE).select(...)
NewQuery == [filters |-> << >>, order |-> None, limit |-> None]

\* query.ilike(col, "%pat%")
QIlike(q, col, pat) ==
  [q EXCEPT !.filters = Append(@, [col |-> col, op |-> "ilike", pat |-> pat])]

\* query.eq(col, value)
QEq(q, col, value) ==
  [q EXCEPT !.filters = Append(@, [col |-> col, op |-> "eq", pat |-> value])]

\* query.order("Cost of branded", desc=...)
QOrder(q, desc) == [q EXCEPT !.order = Some(desc)]

\* query.limit(n)
QLimit(q, n) == [q EXCEPT !.limit = Some(n)]

RowMatches(row, flt) ==
  /\ ~IsNone(row[flt.col])
  /\ IF flt.op = "eq" THEN Val(row[flt.col]) = flt.pat
     ELSE Contains(Lower(Val(row[flt.col])), Lower(flt.pat))

RECURSIVE FilterRows(_, _)
FilterRows(rows, filters) ==
  IF rows = << >> THEN << >>
  ELSE (IF \A i \in 1..Len(filters) : RowMatches(Head(rows), filters[i])
        THEN <<Head(rows)>> ELSE << >>) \o FilterRows(Tail(rows), filters)

\* x sorts strictly before y by "Cost of branded" (NULLs last ascending,
\* first descending, as the table's engine orders them)
Before(x, y, desc) ==
  LET a == x[ColBranded]
      b == y[ColBranded]
  IN IF desc
     THEN \/ IsNone(a) /\ ~IsNone(b)
          \/ ~IsNone(a) /\ ~IsNone(b) /\ Val(a) > Val(b)
     ELSE \/ ~IsNone(a) /\ IsNone(b)
          \/ ~IsNone(a) /\ ~IsNone(b) /\ Val(a) < Val(b)

RECURSIVE InsertRow(_, _, _)
InsertRow(x, sorted, desc) ==
  IF sorted = << >> THEN <<x>>
  ELSE IF Before(x, Head(sorted), desc) THEN <<x>> \o sorted
  ELSE <<Head(sorted)>> \o InsertRow(x, Tail(sorted), desc)

RECURSIVE SortRows(_, _)
SortRows(rows, desc) ==
  IF rows = << >> THEN << >>
  ELSE InsertRow(rows[Len(rows)], SortRows(SubSeq(rows, 1, Len(rows) - 1), desc), desc)

\* query.execute(): filter, then order, then limit; response.data
Execute(q, table) ==
  LET matched == FilterRows(table, q.filters)
      ordered == IF IsNone(q.order) THEN matched ELSE SortRows(matched, Val(q.order))
  IN IF IsNone(q.limit) THEN ordered
     ELSE SubSeq(ordered, 1, Min(Len(ordered), Val(q.limit)))

(***************************************************************************)
(* routers/finder.py: query building                                       *)
(***************************************************************************)
field_mapping(field) ==
  CASE field \in {"type", "Type"} -> Some(ColType)
    [] field \in {"name", "Name"} -> Some(ColName)
    [] field \in {"formulation", "Formulation"} -> Some(ColFormulation)
    [] field \in {"dosage", "Dosage"} -> Some(ColDosage)
    [] OTHER -> None

build_search_query(table_query, field, value, exact) ==
  IF value = << >> THEN table_query
  ELSE LET db_field == field_mapping(field) IN
    IF IsNone(db_field) THEN table_query
    ELSE IF Val(db_field) = ColType
      THEN IF clean_type_value(value) = << >> THEN table_query
           ELSE QIlike(table_query, ColType, clean_type_value(value))
    ELSE IF clean_search_value(value) = << >> THEN table_query
    ELSE IF exact THEN QEq(table_query, Val(db_field), clean_search_value(value))
    ELSE QIlike(table_query, Val(db_field), clean_search_value(value))

safe_get(data, key) ==
  IF IsNone(data) THEN None
  ELSE IF key \in DOMAIN Val(data) THEN Val(data)[key] ELSE None

apply_price_sort(q, sort_order) ==
  IF sort_order = "low_to_high" THEN QOrder(q, FALSE)
  ELSE IF sort_order = "high_to_low" THEN QOrder(q, TRUE)
  ELSE q

(***************************************************************************)
(* models/schemas.py: Medicine, and routers/finder.py: the record mapper   *)
(* Prices are whole currency units; Savings is in tenths of a percent.     *)
(***************************************************************************)
\* round(x, 1) of num/den percent, as tenths: nearest, ties to even
RoundTenths(num, den) ==
  LET q == (num * 1000) \div den
      r == (num * 1000) % den
  IN IF 2 * r < den THEN q
     ELSE IF 2 * r > den THEN q + 1
     ELSE IF q % 2 = 0 THEN q ELSE q + 1

\* a dict key that is present with a value other than None
HasValue(data, key) == key \in DOMAIN data /\ ~IsNone(data[key])

\* @validator('cost_of_branded', 'cost_of_generic') validate_prices: v is accepted
validate_prices(v) == ~(v < 0)

\* validate_generic_price without its comparison: every v is accepted
validate_generic_price_Off(v, values) == TRUE

\* @validator('cost_of_generic') validate_generic_price: v is accepted
validate_generic_price(v, values) ==
  ~("cost_of_branded" \in DOMAIN values /\ v > values["cost_of_branded"])

\* calculate_cost_difference trusting the supplied value
calculate_cost_difference_Trust(v, values) == [ok |-> TRUE, v |-> v]

\* @validator('cost_difference') calculate_cost_difference: [ok, v]
calculate_cost_difference(v, values) ==
  IF "cost_of_branded" \in DOMAIN values /\ "cost_of_generic" \in DOMAIN values
  THEN LET calculated_difference == values["cost_of_branded"] - values["cost_of_generic"]
       IN [ok |-> ~(calculated_difference < 0), v |-> Some(calculated_difference)]
  ELSE [ok |-> TRUE, v |-> v]

\* @validator('savings') calculate_savings
calculate_savings(v, values) ==
  IF /\ "cost_of_branded" \in DOMAIN values
     /\ "cost_of_generic" \in DOMAIN values
     /\ values["cost_of_branded"] > 0
  THEN Some(RoundTenths(values["cost_of_branded"] - values["cost_of_generic"],
                        values["cost_of_branded"]))
  ELSE v

\* Medicine.model_validate(data): fields are validated in declaration order,
\* `values` holds the fields validated so far; a validator of an Optional
\* field runs only when the key is supplied.  Result [ok, med].
MedicineValidate(data) ==
  LET strOk(col) == HasValue(data, col)
      brandedOk == HasValue(data, ColBranded) /\ validate_prices(Val(data[ColBranded]))
      v1 == IF brandedOk THEN [cost_of_branded |-> Val(data[ColBranded])]
            ELSE [x \in {} |-> 0]
      genericOk == /\ HasValue(data, ColGeneric)
                   /\ validate_prices(Val(data[ColGeneric]))
                   /\ validate_generic_price(Val(data[ColGeneric]), v1)
      v2 == IF genericOk THEN DictSet(v1, "cost_of_generic", Val(data[ColGeneric])) ELSE v1
      cd == IF ColDifference \in DOMAIN data
            THEN calculate_cost_difference(data[ColDifference], v2)
            ELSE [ok |-> TRUE, v |-> None]
      sv == IF ColSavings \in DOMAIN data THEN calculate_savings(data[ColSavings], v2)
            ELSE None
      ok == /\ strOk(ColName) /\ strOk(ColDosage) /\ strOk(ColFormulation)
            /\ brandedOk /\ genericOk /\ cd.ok
            /\ strOk(ColType) /\ strOk(ColUses) /\ strOk(ColSideEffects)
  IN IF ok
     THEN [ok |-> TRUE,
           med |-> [name |-> Val(data[ColName]), dosage |-> Val(data[ColDosage]),
                    formulation |-> Val(data[ColFormulation]),
                    cost_of_branded |-> Val(data[ColBranded]),
                    cost_of_generic |-> Val(data[ColGeneric]),
                    cost_difference |-> cd.v, savings |-> sv,
                    type |-> Val(data[ColType]), uses |-> Val(data[ColUses]),
                    side_effects |-> Val(data[ColSideEffects])]]
     ELSE [ok |-> FALSE, med |-> None]

\* the dict `data` as create_medicine_from_db leaves it (it is updated in
\* place) when the Decimal conversions succeed
MutatedData(data) ==
  LET both == ColBranded \in DOMAIN data /\ ColGeneric \in DOMAIN data
      d1 == IF both /\ ~HasValue(data, ColDifference)
            THEN DictSet(data, ColDifference,
                         Some(Val(data[ColBranded]) - Val(data[ColGeneric])))
            ELSE data
      d2 == IF both /\ ~HasValue(d1, ColSavings) /\ Val(data[ColBranded]) > 0
            THEN DictSet(d1, ColSavings,
                         Some(RoundTenths(Val(data[ColBranded]) - Val(data[ColGeneric]),
                                          Val(data[ColBranded]))))
            ELSE d1
  IN d2

\* create_medicine_from_db(data): [ok, med, data]; ok = FALSE when it raises
\* (Decimal(str(None)) raises, as does a failed validation)
create_medicine_from_db(data) ==
  IF \/ (ColBranded \in DOMAIN data /\ IsNone(data[ColBranded]))
     \/ (ColGeneric \in DOMAIN data /\ IsNone(data[ColGeneric]))
  THEN [ok |-> FALSE, med |-> None, data |-> data]
  ELSE LET res == MedicineValidate(MutatedData(data))
       IN [ok |-> res.ok, med |-> res.med, data |-> MutatedData(data)]

(***************************************************************************)
(* models/schemas.py: MedicineSearchRequest                                *)
(* A request body is a dict field -> Optional string; a field left out of  *)
(* the body is a key left out of the dict.                                 *)
(***************************************************************************)
RequestFields == <<"name", "formulation", "type", "dosage">>

\* @validator validate_string_fields
validate_string_fields(v) ==
  IF ~IsNone(v) /\ Len(Strip(Val(v))) = 0 THEN None ELSE v

\* @validator validate_at_least_one_field: v is accepted
validate_at_least_one_field(v, values) ==
  \/ DOMAIN values = {}
  \/ ~IsNone(v)
  \/ \E k \in DOMAIN values : ~IsNone(values[k])

\* validation of the fields RequestFields[i..]: `values` are the fields
\* validated so far (a field left out takes its default None unvalidated; a
\* field whose validator raised is left out of `values`)
RECURSIVE ValidateFrom(_, _, _, _)
ValidateFrom(body, i, values, ok) ==
  IF i > Len(RequestFields) THEN [ok |-> ok, values |-> values]
  ELSE LET f == RequestFields[i] IN
    IF f \notin DOMAIN body
    THEN ValidateFrom(body, i + 1, DictSet(values, f, None), ok)
    ELSE LET v == validate_string_fields(body[f]) IN
      IF validate_at_least_one_field(v, values)
      THEN ValidateFrom(body, i + 1, DictSet(values, f, v), ok)
      ELSE ValidateFrom(body, i + 1, values, FALSE)

\* MedicineSearchRequest.model_validate(body): [ok, values]
MedicineSearchRequest(body) == ValidateFrom(body, 1, [x \in {} |-> None], TRUE)

(***************************************************************************)
(* Table contents the model starts from: windows over a fixed catalogue of *)
(* rows (duplicates, case variants, rows that fail mapping, NULL and empty *)
(* values, more than MAX_RESULTS rows of one Type, more than 10 Names).    *)
(***************************************************************************)
Catalogue ==
  << MkRow(Some(<<"A", "b">>), Some(<<"G", "x">>), Some(<<"A", "d">>), Some(<<"1", "m">>), Some(10), Some(4), Some(6), Some(600), Some(<<"u">>)),
     MkRow(Some(<<"A", "b">>), Some(<<"G", "x">>), Some(<<"A", "d">>), Some(<<"1", "m">>), Some(10), Some(4), Some(6), Some(600), Some(<<"u">>)),
     MkRow(Some(<<"A", "B">>), Some(<<"g", "x">>), Some(<<"A", "d">>), Some(<<"2", "m">>), Some(20), Some(5), None, None, Some(<<"u">>)),
     MkRow(Some(<<"A", "c">>), Some(<<"G", "x">>), Some(<<"a", "d">>), Some(<<"1", "m">>), Some(5), Some(8), None, None, Some(<<"u">>)),
     MkRow(Some(<<"a", "b">>), Some(<<"G", "y">>), Some(<<"A", "d">>), Some(<<"1", "m">>), Some(3), Some(1), Some(9), None, Some(<<"u">>)),
     MkRow(Some(<<"B", "a">>), Some(<<"G", "y">>), None, Some(<<>>), Some(8), Some(8), None, None, Some(<<"u">>)),
     MkRow(Some(<<"A", "b">>), Some(<<"G", "x">>), Some(<<"A", "d">>), Some(<<"1", "m">>), Some(10), Some(4), None, None, Some(<<"u">>)),
     MkRow(Some(<<"B", "b">>), Some(<<"g", "X">>), Some(<<"A", "d">>), Some(<<"2", "m">>), Some(0), Some(0), None, None, Some(<<"u">>)),
     MkRow(Some(<<"A", "b">>), Some(<<"G", "x">>), Some(<<"A", "d">>), Some(<<"1", "m">>), Some(10), Some(4), None, None, Some(<<"u">>)),
     MkRow(Some(<<"D", "d">>), Some(<<"G", "x">>), Some(<<"A", "d">>), Some(<<"2", "m">>), Some(7), Some(2), Some(5), None, Some(<<"u">>)),
     MkRow(Some(<<"D", "c">>), Some(<<"G", "y">>), Some(<<"A", "d">>), Some(<<"1", "m">>), Some(30), Some(10), None, None, Some(<<"u">>)),
     MkRow(Some(<<"D", "b">>), Some(<<"G", "x">>), Some(<<"A", "d">>), Some(<<"1", "m">>), Some(7), Some(7), Some(0), None, Some(<<"u">>)),
     MkRow(Some(<<"D", "a">>), Some(<<"G", "y">>), Some(<<"A", "d">>), Some(<<"2", "m">>), Some(12), Some(3), None, None, Some(<<"u">>)),
     MkRow(Some(<<"C", "d">>), Some(<<"G", "x">>), Some(<<"A", "d">>), Some(<<"1", "m">>), Some(9), Some(1), Some(8), None, Some(<<"u">>)),
     MkRow(Some(<<"C", "c">>), Some(<<"G", "y">>), Some(<<"A", "d">>), Some(<<"1", "m">>), Some(15), Some(5), None, None, Some(<<"u">>)),
     MkRow(Some(<<"C", "b">>), Some(<<"G", "x">>), Some(<<"A", "d">>), Some(<<"2", "m">>), Some(7), Some(2), Some(5), None, Some(<<"u">>)),
     MkRow(Some(<<"C", "a">>), Some(<<"G", "y">>), Some(<<"A", "d">>), Some(<<"1", "m">>), Some(40), Some(4), None, None, Some(<<"u">>)),
     MkRow(Some(<<"B", "d">>), Some(<<"G", "x">>), Some(<<"A", "d">>), Some(<<"1", "m">>), Some(6), Some(3), Some(3), None, Some(<<"u">>)),
     MkRow(Some(<<"B", "c">>), Some(<<"G", "y">>), Some(<<"A", "d">>), Some(<<"2", "m">>), Some(11), Some(1), None, None, Some(<<"u">>)),
     MkRow(Some(<<"A", "d">>), Some(<<"G", "x">>), Some(<<"A", "d">>), Some(<<"1", "m">>), Some(2), Some(1), Some(1), None, Some(<<"u">>)),
     MkRow(Some(<<"A", "a">>), Some(<<"G", "y">>), Some(<<"A", "d">>), Some(<<"1", "m">>), Some(25), Some(5), None, None, Some(<<"u">>)),
     MkRow(Some(<<"A", "b">>), Some(<<"G", "x">>), Some(<<"A", "d">>), Some(<<"2", "m">>), Some(10), Some(4), Some(6), None, Some(<<"u">>)) >>

\* first catalogue row of a window
StoreStarts == {1, 7}

\* the rows Catalogue[start], Catalogue[start + 1], ... (cyclically), n of them
Window(start, n) ==
  [i \in 1..n |-> Catalogue[((start + i - 2) % Len(Catalogue)) + 1]]

\* the short windows from the first row, the longest windows from each start
Stores ==
  {Window(1, n) : n \in 0..5}
    \cup {Window(st, n) : st \in StoreStarts, n \in (MaxRows - 1)..MaxRows}

(***************************************************************************)
(* State                                                                   *)
(*   store : the table's rows, in table order                              *)
(*   cache   : the lru_cache of get_cached_suggestions, least recent first *)
(*   request : the request in flight (search, medicine, by_type)           *)
(*   resp    : the last request served and its response                    *)
(*   nreq    : number of suggestion requests served                        *)
(***************************************************************************)
EmptyDict == [x \in {} |-> None]

\* outcomes of one round-trip to the table
Outcomes == {"ok", "conn_error", "error"}

NoResp ==
  [op |-> "none", status |-> 0, body |-> EmptyDict, values |-> EmptyDict,
   field |-> "", query |-> None, sort_order |-> None, limit |-> 0,
   calls |-> << >>, rows |-> << >>, exact_match |-> None,
   similar_formulations |-> << >>, medicines |-> << >>,
   suggestions |-> << >>, cache_hit |-> FALSE]

NoRequest == [op |-> "none"]

\* truthiness of an Optional[str]
Truthy(o) == ~IsNone(o) /\ Val(o) # << >>

(***************************************************************************)
(* routers/finder.py: suggestions                                          *)
(***************************************************************************)
CacheMaxSize == 1000

\* the distinct truthy str values of `field` among rows
SuggestionSet(rows, field) ==
  {Val(rows[i][field]) : i \in {j \in 1..Len(rows) : Truthy(rows[j][field])}}

\* sorted(list(s)): ascending by code point
RECURSIVE SortedList(_)
SortedList(s) ==
  IF s = {} THEN << >>
  ELSE LET m == CHOOSE x \in s : \A y \in s : ~StrLess(y, x)
       IN <<m>> \o SortedList(s \ {m})

\* the [:10] of get_cached_suggestions
SuggestionLimit == 10

Truncate(list) == SubSeq(list, 1, Min(Len(list), SuggestionLimit))

\* the query get_cached_suggestions sends
SuggestionQuery(field, query) ==
  IF Truthy(query) THEN QIlike(NewQuery, field, clean_search_value(Val(query)))
  ELSE NewQuery

\* ComputeSuggestions without its try/except: the exception of the
\* round-trip propagates
ComputeSuggestions_NoCatch(field, query, outcome, table) ==
  IF outcome # "ok" THEN [raised |-> outcome, value |-> << >>]
  ELSE [raised |-> "",
        value |-> Truncate(SortedList(SuggestionSet(
                    Execute(SuggestionQuery(field, query), table), field)))]

\* ComputeSuggestions truncating the rows before de-duplicating and sorting
ComputeSuggestions_TruncFirst(field, query, outcome, table) ==
  IF outcome # "ok" THEN [raised |-> "", value |-> << >>]
  ELSE [raised |-> "",
        value |-> SortedList(SuggestionSet(
                    Truncate(Execute(SuggestionQuery(field, query), table)), field))]

\* body of get_cached_suggestions on a cache miss: [raised, value]; the
\* try/except catches every exception of the round-trip and returns []
ComputeSuggestions(field, query, outcome, table) ==
  IF outcome # "ok" THEN [raised |-> "", value |-> << >>]
  ELSE LET data == Execute(SuggestionQuery(field, query), table)
       IN IF data = << >> THEN [raised |-> "", value |-> << >>]
          ELSE [raised |-> "", value |-> Truncate(SortedList(SuggestionSet(data, field)))]

CacheIndex(c, key) == {i \in 1..Len(c) : c[i].key = key}

RemoveAt(seq, i) == SubSeq(seq, 1, i - 1) \o SubSeq(seq, i + 1, Len(seq))

\* lru_cache bookkeeping after a hit on entry i: it becomes the most recent
CacheTouch(c, i) == Append(RemoveAt(c, i), c[i])

\* lru_cache bookkeeping after a miss: store the result, evict the oldest
CacheStore(c, key, value) ==
  LET added == Append(c, [key |-> key, value |-> value])
  IN IF Len(added) > CacheMaxSize THEN Tail(added) ELSE added

\* get_cached_suggestions keeping no entry for a call whose round-trip raised
get_cached_suggestions_NoErrorEntry(c, field, query, outcome, table) ==
  LET key == <<field, query>>
      idx == CacheIndex(c, key)
  IN IF idx # {}
     THEN LET i == CHOOSE j \in idx : TRUE
          IN [raised |-> "", value |-> c[i].value, hit |-> TRUE,
              cache |-> CacheTouch(c, i)]
     ELSE LET r == ComputeSuggestions(field, query, outcome, table)
          IN [raised |-> "", value |-> r.value, hit |-> FALSE,
              cache |-> IF outcome # "ok" THEN c ELSE CacheStore(c, key, r.value)]

\* get_cached_suggestions(field, query) under @lru_cache:
\* [raised, value, hit, cache]; a call that raises is not cached
get_cached_suggestions(c, field, query, outcome, table) ==
  LET key == <<field, query>>
      idx == CacheIndex(c, key)
  IN IF idx # {}
     THEN LET i == CHOOSE j \in idx : TRUE
          IN [raised |-> "", value |-> c[i].value, hit |-> TRUE,
              cache |-> CacheTouch(c, i)]
     ELSE LET r == ComputeSuggestions(field, query, outcome, table)
          IN IF r.raised # ""
             THEN [raised |-> r.raised, value |-> << >>, hit |-> FALSE, cache |-> c]
             ELSE [raised |-> "", value |-> r.value, hit |-> FALSE,
                   cache |-> CacheStore(c, key, r.value)]

\* get_all_types(): one round-trip; [raised, value]; every exception is
\* caught and gives []
get_all_types(outcome, table) ==
  IF outcome # "ok" THEN [raised |-> "", value |-> << >>]
  ELSE [raised |-> "", value |-> SortedList(SuggestionSet(Execute(NewQuery, table), ColType))]

valid_fields == {"Name", "Formulation", "Type", "Dosage"}

\* the except clauses of get_suggestions: status for an exception that
\* reaches them
SuggestionsExcept(raised) == IF raised = "conn_error" THEN 503 ELSE 500

\* GET /finder/suggestions/{field}?query=
\* o1: outcome of the suggestion query (used on a miss), o2: of get_all_types
get_suggestions(field, query, o1, o2) ==
  /\ nreq < MaxReq
  /\ nreq' = nreq + 1
  /\ UNCHANGED <<store, request>>
  /\ IF field \notin valid_fields
     THEN \* the HTTPException(400) is raised inside the try block and caught
          \* by `except Exception`
          /\ cache' = cache
          /\ resp' = [NoResp EXCEPT !.op = "suggestions",
                                    !.status = SuggestionsExcept("HTTPException"),
                                    !.field = field, !.query = query]
     ELSE LET r == get_cached_suggestions(cache, field, query, o1, store)
              t == IF field = "Type" /\ r.raised = "" THEN get_all_types(o2, store)
                   ELSE [raised |-> "", value |-> << >>]
              c1 == IF r.hit THEN << >> ELSE <<o1>>
              c2 == IF field = "Type" /\ r.raised = "" THEN <<o2>> ELSE << >>
              base == [NoResp EXCEPT !.op = "suggestions", !.field = field,
                                     !.query = query, !.calls = c1 \o c2,
                                     !.cache_hit = r.hit]
          IN /\ cache' = r.cache
             /\ IF r.raised # ""
                THEN resp' = [base EXCEPT !.status = SuggestionsExcept(r.raised)]
                ELSE IF t.raised # ""
                THEN resp' = [base EXCEPT !.status = SuggestionsExcept(t.raised)]
                ELSE resp' = [base EXCEPT !.status = 200,
                                !.rows = IF r.hit \/ o1 # "ok" THEN << >>
                                         ELSE Execute(SuggestionQuery(field, query), store),
                                !.suggestions = r.value]

SuggestionFields == valid_fields \cup {"name"}

SuggestionQueries == {None, Some(<<"a">>), Some(<<" ", "G", " ">>)}

Suggestions ==
  \E field \in SuggestionFields, query \in SuggestionQueries,
     o1 \in Outcomes, o2 \in {"ok", "error"} :
    get_suggestions(field, query, o1, o2)

(***************************************************************************)
(* routers/finder.py: POST /finder/search                                  *)
(***************************************************************************)
\* status of a request body that fails validation (no handler is registered
\* for it in main.py, so the framework's default answer is given)
ValidationStatus == 422

\* the conversion of a list that leaves out the rows whose conversion raises
RECURSIVE MapAll_Skip(_)
MapAll_Skip(rows) ==
  IF rows = << >> THEN [ok |-> TRUE, meds |-> << >>]
  ELSE LET h == create_medicine_from_db(Head(rows))
           t == MapAll_Skip(Tail(rows))
       IN [ok |-> TRUE, meds |-> (IF h.ok THEN <<h.med>> ELSE << >>) \o t.meds]

\* [create_medicine_from_db(m) for m in rows]: [ok, meds]; ok = FALSE when
\* one of the calls raises
RECURSIVE MapAll(_)
MapAll(rows) ==
  IF rows = << >> THEN [ok |-> TRUE, meds |-> << >>]
  ELSE LET h == create_medicine_from_db(Head(rows))
           t == MapAll(Tail(rows))
       IN IF h.ok /\ t.ok THEN [ok |-> TRUE, meds |-> <<h.med>> \o t.meds]
          ELSE [ok |-> FALSE, meds |-> << >>]

\* is_type_or_dosage_search
is_type_or_dosage_search(r) ==
  (Truthy(r["type"]) \/ Truthy(r["dosage"]))
    /\ ~(Truthy(r["name"]) \/ Truthy(r["formulation"]))

\* the filters and the ordering search_medicines puts on the query for the
\* validated request r
SearchFilters(r, sort_order) ==
  LET q0 == NewQuery
      q1 == IF Truthy(r["type"])
            THEN build_search_query(q0, "type", Val(r["type"]), FALSE) ELSE q0
      q2 == IF Truthy(r["formulation"])
            THEN build_search_query(q1, "formulation", Val(r["formulation"]), FALSE) ELSE q1
      q3 == IF Truthy(r["name"])
            THEN build_search_query(q2, "name", Val(r["name"]), FALSE) ELSE q2
      q4 == IF Truthy(r["dosage"])
            THEN build_search_query(q3, "dosage", Val(r["dosage"]), FALSE) ELSE q3
  IN IF ~IsNone(sort_order) /\ Val(sort_order) # "none"
     THEN QOrder(q4, Val(sort_order) = "high_to_low") ELSE q4

\* SearchQuery without the row limit of a type/dosage search
SearchQuery_NoLimit(r, sort_order) == SearchFilters(r, sort_order)

\* the query search_medicines executes
SearchQuery(r, sort_order) ==
  IF is_type_or_dosage_search(r) THEN QLimit(SearchFilters(r, sort_order), MAX_RESULTS)
  ELSE SearchFilters(r, sort_order)

\* the column and the request value the exact match is looked for in:
\* [col, value], or None when neither branch of the if/elif is taken
ExactKey(r) ==
  IF Truthy(r["name"]) THEN Some([col |-> ColName, value |-> Val(r["name"])])
  ELSE IF Truthy(r["formulation"])
  THEN Some([col |-> ColFormulation, value |-> Val(r["formulation"])])
  ELSE None

\* indices of exact_matches within rows
ExactMatches(rows, key) ==
  {i \in 1..Len(rows) : Lower(Val(rows[i][key.col])) = Lower(key.value)}

\* m["Name"].lower() raises for a row whose value is None
ExactRaises(rows, key) ==
  ~IsNone(key) /\ \E i \in 1..Len(rows) : IsNone(rows[i][Val(key).col])

\* exact_matches[0] as an index, 0 for an empty list
FirstMatch(matches) ==
  IF matches = {} THEN 0 ELSE CHOOSE i \in matches : \A j \in matches : i <= j

\* index of exact_match_data within rows, 0 when it stays None
ExactIndex(rows, key) ==
  IF IsNone(key) THEN 0 ELSE FirstMatch(ExactMatches(rows, Val(key)))

\* [m for m in medicines if m != exact_match_data]: x is the index of the
\* exact row and data that row as create_medicine_from_db has updated it in
\* place before the comparison is made
RECURSIVE KeptFrom(_, _, _, _)
KeptFrom(rows, i, x, data) ==
  IF i > Len(rows) THEN << >>
  ELSE (IF i = x \/ rows[i] = data THEN << >> ELSE <<rows[i]>>)
         \o KeptFrom(rows, i + 1, x, data)

KeptRows(rows, x) ==
  IF x = 0 THEN rows ELSE KeptFrom(rows, 1, x, create_medicine_from_db(rows[x]).data)

\* exact_match_medicine: [ok, med]
ExactRecord(rows, x) ==
  IF x = 0 THEN [ok |-> TRUE, med |-> None]
  ELSE [ok |-> create_medicine_from_db(rows[x]).ok,
        med |-> Some(create_medicine_from_db(rows[x]).med)]

\* the response of search_medicines: status 500 from the except clauses
SearchFailed(rows) ==
  [status |-> 500, rows |-> rows, exact_match |-> None, similar_formulations |-> << >>]

\* the response of search_medicines: a SearchResponse
SearchFound(rows, exact_match, similar) ==
  [status |-> 200, rows |-> rows, exact_match |-> exact_match,
   similar_formulations |-> similar]

\* type/dosage search: all rows as similar formulations
BrowseRows(rows, mapped) ==
  IF mapped.ok THEN SearchFound(rows, None, mapped.meds) ELSE SearchFailed(rows)

\* name/formulation search: conversion of the exact match and of the others
LookupRows(rows, exact, others) ==
  IF exact.ok /\ others.ok THEN SearchFound(rows, exact.med, others.meds)
  ELSE SearchFailed(rows)

\* the handler from response.data on
SearchRows(r, rows, x) ==
  IF rows = << >> THEN SearchFound(<< >>, None, << >>)
  ELSE IF is_type_or_dosage_search(r) THEN BrowseRows(rows, MapAll(rows))
  ELSE IF ExactRaises(rows, ExactKey(r)) THEN SearchFailed(rows)
  ELSE LookupRows(rows, ExactRecord(rows, x), MapAll(KeptRows(rows, x)))

\* the handler body once the request is validated
SearchBody(r, sort_order, o2, rows) ==
  IF o2 # "ok" THEN SearchFailed(<< >>)
  ELSE SearchRows(r, rows, IF ExactRaises(rows, ExactKey(r)) THEN 0
                           ELSE ExactIndex(rows, ExactKey(r)))

\* the response record of a validated request
SearchResp(body, v, sort_order, o1, o2, b) ==
  [NoResp EXCEPT !.op = "search", !.status = b.status, !.body = body,
                 !.values = v.values, !.sort_order = sort_order,
                 !.calls = <<o1, o2>>, !.rows = b.rows,
                 !.exact_match = b.exact_match,
                 !.similar_formulations = b.similar_formulations]

\* the handler, given the outcome v of the validation of the body
SearchValidated(body, v, sort_order, o1, o2, table) ==
  IF ~v.ok
  THEN [NoResp EXCEPT !.op = "search", !.status = ValidationStatus,
                      !.body = body, !.sort_order = sort_order]
  ELSE SearchResp(body, v, sort_order, o1, o2,
                  SearchBody(v.values, sort_order, o2,
                             Execute(SearchQuery(v.values, sort_order), table)))

\* POST /finder/search?sort_order=
\* o1: outcome of the get_all_types round-trip, o2: of the search query
search_medicines(body, sort_order, o1, o2) ==
  /\ UNCHANGED <<store, cache, request, nreq>>
  /\ resp' = SearchValidated(body, MedicineSearchRequest(body), sort_order, o1, o2, store)

\* values a field of the request body takes (None: JSON null)
NameInputs == {Some(<<" ", " ">>), Some(<<"a", "b">>), Some(<<"b">>)}
FormulationInputs == {None, Some(<<" ">>), Some(<<"g", "x">>)}
TypeInputs == {Some(<<" ">>), Some(<<" ", "a", "d">>)}
DosageInputs == {None, Some(<<"1", "m">>)}

FieldInputs(f) ==
  CASE f = "name" -> NameInputs [] f = "formulation" -> FormulationInputs
    [] f = "type" -> TypeInputs [] OTHER -> DosageInputs

\* all request bodies: any subset of the four keys, each with one of its values
Bodies ==
  UNION {[keys -> UNION {FieldInputs(f) : f \in keys}] : keys \in SUBSET {"name", "formulation", "type", "dosage"}}

SearchBodies == {b \in Bodies : \A f \in DOMAIN b : b[f] \in FieldInputs(f)}

SortOrders == {None, Some("none"), Some("low_to_high"), Some("high_to_low")}

\* outcomes of the two round-trips of a request: get_all_types, main query
CallOutcomes ==
  {<<"ok", "ok">>, <<"error", "ok">>, <<"ok", "conn_error">>, <<"error", "error">>}

SearchRequests ==
  {[op |-> "search", body |-> body, sort_order |-> sort_order, o1 |-> o[1], o2 |-> o[2]] :
     body \in SearchBodies, sort_order \in SortOrders, o \in CallOutcomes}

Search ==
  /\ request.op = "search" /\ resp.op = "none"
  /\ search_medicines(request.body, request.sort_order, request.o1, request.o2)

(***************************************************************************)
(* routers/finder.py: GET /finder/medicine/{name}                          *)
(***************************************************************************)
\* status the handler ends with when `raised` (an HTTPException status, 0
\* for any other exception) is raised inside its try block: the handler's
\* `except Exception` turns every exception into HTTPException(500)
DetailsExcept(raised) == 500

get_medicine_details(name, o) ==
  /\ UNCHANGED <<store, cache, request, nreq>>
  /\ LET rows == Execute(QLimit(QEq(NewQuery, ColName, name), 1), store)
         base == [NoResp EXCEPT !.op = "medicine", !.query = Some(name), !.calls = <<o>>]
     IN IF o # "ok" THEN resp' = [base EXCEPT !.status = DetailsExcept(0)]
        ELSE IF rows = << >> THEN resp' = [base EXCEPT !.status = DetailsExcept(404)]
        ELSE IF ~MedicineValidate(rows[1]).ok
          THEN resp' = [base EXCEPT !.status = DetailsExcept(0), !.rows = rows]
        ELSE resp' = [base EXCEPT !.status = 200, !.rows = rows,
                                  !.medicines = <<MedicineValidate(rows[1]).med>>]

DetailNames == {<<"A", "b">>, <<"a", "b">>, <<"b">>, <<"A", "c">>, <<"B", "b">>}

DetailRequests ==
  {[op |-> "medicine", name |-> name, o |-> o] : name \in DetailNames, o \in Outcomes}

MedicineDetails ==
  /\ request.op = "medicine" /\ resp.op = "none"
  /\ get_medicine_details(request.name, request.o)

(***************************************************************************)
(* routers/finder.py: GET /finder/medicines/by_type                        *)
(***************************************************************************)
\* the conversion loop without its inner try/except: one failing row
\* loses the whole list
MapValid_Abort(rows) == IF MapAll(rows).ok THEN MapAll(rows).meds ELSE << >>

\* the conversion loop: rows whose conversion raises are skipped
RECURSIVE MapValid(_)
MapValid(rows) ==
  IF rows = << >> THEN << >>
  ELSE LET h == create_medicine_from_db(Head(rows))
       IN (IF h.ok THEN <<h.med>> ELSE << >>) \o MapValid(Tail(rows))

ByTypeQuery(type, limit, sort_order) ==
  LET q == QLimit(QIlike(NewQuery, ColType, clean_type_value(type)), limit)
  IN IF ~IsNone(sort_order) /\ Val(sort_order) # "none"
     THEN apply_price_sort(q, Val(sort_order)) ELSE q

\* o1: outcome of the get_all_types round-trip, o2: of the listing query
get_medicines_by_type(type, limit, sort_order, o1, o2) ==
  /\ UNCHANGED <<store, cache, request, nreq>>
  /\ LET rows == Execute(ByTypeQuery(type, limit, sort_order), store)
         base == [NoResp EXCEPT !.op = "by_type", !.query = Some(type),
                                !.limit = limit, !.sort_order = sort_order,
                                !.calls = <<o1, o2>>]
     IN IF o2 # "ok" THEN resp' = [base EXCEPT !.status = 500]
        ELSE resp' = [base EXCEPT !.status = 200, !.rows = rows,
                                  !.medicines = MapValid(rows)]

ByTypeInputs == {<<"a", "d">>, <<" ", "A", "d", " ">>, <<"G">>, << >>}

\* limit: Query(ge=1, le=100)
ByTypeLimits == {1, 3, 100}

ByTypeRequests ==
  {[op |-> "by_type", type |-> type, limit |-> limit, sort_order |-> sort_order,
    o1 |-> o[1], o2 |-> o[2]] :
     type \in ByTypeInputs, limit \in ByTypeLimits, sort_order \in SortOrders \ {None},
     o \in CallOutcomes}

ByType ==
  /\ request.op = "by_type" /\ resp.op = "none"
  /\ get_medicines_by_type(request.type, request.limit, request.sort_order,
                           request.o1, request.o2)

(***************************************************************************)
(* The record mapper on its own: a raw record is handed either to          *)
(* create_medicine_from_db or straight to Medicine.model_validate (as      *)
(* get_medicine_details does).                                             *)
(***************************************************************************)
\* del data[key]
DictRemove(data, key) == [k \in DOMAIN data \ {key} |-> data[k]]

\* data with `key` left out (o = None) or set to the value Val(o)
WithKey(data, key, o) ==
  IF IsNone(o) THEN DictRemove(data, key) ELSE DictSet(data, key, Val(o))

\* a raw record: name n, prices b and g, and the keys "Cost difference" and
\* "Savings" left out, null or set
RawRecord(n, b, g, cd, sv) ==
  WithKey(WithKey(MkRow(n, Some(<<"G">>), Some(<<"A">>), Some(<<"1">>),
                        Some(b), Some(g), None, None, Some(<<"u">>)),
                  ColDifference, cd),
          ColSavings, sv)

Prices == -1..MaxPrice

\* None: key left out; Some(None): null; Some(Some(x)): the value x
DifferenceInputs == {None, Some(None), Some(Some(0)), Some(Some(1)), Some(Some(-2))}
SavingsInputs == {None, Some(None), Some(Some(0)), Some(Some(125))}

RawRecords ==
  {RawRecord(n, b, g, cd, sv) :
     n \in {None, Some(<<"A">>)}, b \in Prices, g \in Prices,
     cd \in DifferenceInputs, sv \in SavingsInputs}

MapRequests == {[op |-> op, data |-> d] : op \in {"map", "validate"}, d \in RawRecords}

\* the outcome of a mapping: ok = FALSE when it raised
MapResult(op, ok, med) == [op |-> op, ok |-> ok, med |-> med]

MapRecord ==
  /\ request.op = "map" /\ resp.op = "none"
  /\ resp' = MapResult("map", create_medicine_from_db(request.data).ok,
                       create_medicine_from_db(request.data).med)
  /\ UNCHANGED <<store, cache, request, nreq>>

ValidateRecord ==
  /\ request.op = "validate" /\ resp.op = "none"
  /\ resp' = MapResult("validate", MedicineValidate(request.data).ok,
                       MedicineValidate(request.data).med)
  /\ UNCHANGED <<store, cache, request, nreq>>

(***************************************************************************)
(* Specifications                                                          *)
(***************************************************************************)
\* the three handlers that keep no state between requests: one request has
\* arrived against some table, and its handler serves it
Init ==
  /\ store \in Stores
  /\ cache = << >>
  /\ request \in SearchRequests \cup DetailRequests \cup ByTypeRequests
  /\ resp = NoResp
  /\ nreq = 0

Next == Search \/ MedicineDetails \/ ByType

Spec == Init /\ [][Next]_vars

\* the suggestion endpoint with its cache: a sequence of requests
SuggestStores == {Window(1, n) : n \in {0, 2, 6, MaxRows}}

SuggestInit ==
  /\ store \in SuggestStores
  /\ cache = << >>
  /\ request = NoRequest
  /\ resp = NoResp
  /\ nreq = 0

SuggestNext == Suggestions

SuggestSpec == SuggestInit /\ [][SuggestNext]_vars

\* the record mapper applied to one raw record
MapInit ==
  /\ store = << >>
  /\ cache = << >>
  /\ request \in MapRequests
  /\ resp = NoResp
  /\ nreq = 0

MapNext == MapRecord \/ ValidateRecord

MapSpec == MapInit /\ [][MapNext]_vars

\* the suggestion cache while the table changes between requests
CacheStores == {Window(1, 2), Window(1, 6), Window(5, 3)}

CacheFields == {"Name", "Type"}

CacheQueries == {None, Some(<<"a">>)}

\* a suggestion request; its suggestion query succeeds or raises
CachedSuggestions ==
  \E field \in CacheFields, query \in CacheQueries, o1 \in {"ok", "error"} :
    get_suggestions(field, query, o1, "ok")

\* rows are added to or removed from the table by its owner
StoreChange ==
  /\ \E table \in CacheStores \ {store} : store' = table
  /\ UNCHANGED <<cache, request, resp, nreq>>

CacheInit ==
  /\ store \in CacheStores
  /\ cache = << >>
  /\ request = NoRequest
  /\ resp = NoResp
  /\ nreq = 0

CacheNext == CachedSuggestions \/ StoreChange

CacheSpec == CacheInit /\ [][CacheNext]_vars

(***************************************************************************)
(* Properties                                                              *)
(***************************************************************************)
\* a field of a search body that is present, not null and not whitespace-only
FieldSet(body, f) ==
  f \in DOMAIN body /\ ~IsNone(body[f]) /\ Strip(Val(body[f])) # << >>

\* a store call made while serving the last request raised
SomeCallRaised == \E i \in 1..Len(resp.calls) : resp.calls[i] # "ok"

\* C1: GET /finder/medicine/{name}: whenever the exact-name query for `name`
\* returns no row, the response status is 404.
C1_NotFoundIs404 ==
  (/\ resp.op = "medicine"
   /\ resp.calls = <<"ok">>
   /\ Execute(QLimit(QEq(NewQuery, ColName, request.name), 1), store) = << >>)
    => resp.status = 404

\* C2: GET /finder/suggestions/{field}: for every field outside
\* {Name, Formulation, Type, Dosage} the response status is 400 and no store
\* query is issued for the request.
C2_InvalidFieldIs400 ==
  (resp.op = "suggestions" /\ resp.field \notin {"Name", "Formulation", "Type", "Dosage"})
    => (resp.status = 400 /\ resp.calls = << >>)

\* C3: POST /finder/search: a request in which each of name, formulation,
\* type and dosage is absent, null or whitespace-only is rejected with 400
\* before any query is executed; it never yields a 200 response.
C3_EmptyRequestRejected ==
  (/\ resp.op = "search"
   /\ \A f \in {"name", "formulation", "type", "dosage"} : ~FieldSet(resp.body, f))
    => (resp.status = 400 /\ resp.calls = << >>)

\* browse mode of the search: type and/or dosage set, name and formulation unset
BrowseMode(body) ==
  /\ FieldSet(body, "type") \/ FieldSet(body, "dosage")
  /\ ~FieldSet(body, "name")
  /\ ~FieldSet(body, "formulation")

\* C4: POST /finder/search in browse mode: every 200 response has no
\* exact_match and at most 15 similar_formulations, for any table contents
\* and any sort_order.
C4_BrowseCapped ==
  (resp.op = "search" /\ resp.status = 200 /\ BrowseMode(resp.body))
    => (IsNone(resp.exact_match) /\ Len(resp.similar_formulations) <= 15)

\* C4 witness: a browse search answered 200 with 15 records although more
\* than 15 rows of the table pass its filters
C4_Witness ==
  /\ resp.op = "search" /\ resp.status = 200 /\ BrowseMode(resp.body)
  /\ Len(resp.similar_formulations) = 15
  /\ Len(FilterRows(store, SearchFilters(resp.values, resp.sort_order).filters)) > 15

\* lookup mode of the search: name and/or formulation set
LookupMode(body) == FieldSet(body, "name") \/ FieldSet(body, "formulation")

\* indices of the returned rows whose Name equals the request's name, or
\* whose Formulation equals the request's formulation, case-insensitively
ExactRows(rows, body) ==
  {i \in 1..Len(rows) :
     \/ FieldSet(body, "name")
          /\ Lower(Val(rows[i][ColName])) = Lower(Val(body["name"]))
     \/ FieldSet(body, "formulation")
          /\ Lower(Val(rows[i][ColFormulation])) = Lower(Val(body["formulation"]))}

FirstOf(S) == CHOOSE i \in S : \A j \in S : i <= j

\* the records of the rows at the given indices, in order
RecordsAt(rows, idx) == [k \in 1..Len(idx) |-> create_medicine_from_db(rows[idx[k]]).med]

\* the indices 1..n without index x, ascending
RECURSIVE IndicesWithout(_, _)
IndicesWithout(n, x) ==
  IF n = 0 THEN << >>
  ELSE IndicesWithout(n - 1, x) \o (IF n = x THEN << >> ELSE <<n>>)

\* a is b with some elements left out
RECURSIVE IsSubsequence(_, _)
IsSubsequence(a, b) ==
  IF a = << >> THEN TRUE
  ELSE IF b = << >> THEN FALSE
  ELSE IF Head(a) = Head(b) THEN IsSubsequence(Tail(a), Tail(b))
  ELSE IsSubsequence(a, Tail(b))

\* C5: POST /finder/search in lookup mode: if some returned row has a Name
\* equal to the request's name or a Formulation equal to the request's
\* formulation (case-insensitively), exact_match is the record of the first
\* such row in store order and that row is not among similar_formulations;
\* also when both fields are set and only the formulation matches exactly.
C5_ExactMatchFound ==
  (/\ resp.op = "search" /\ resp.status = 200 /\ LookupMode(resp.body)
   /\ ExactRows(resp.rows, resp.body) # {})
    => LET x == FirstOf(ExactRows(resp.rows, resp.body))
       IN /\ resp.exact_match = Some(create_medicine_from_db(resp.rows[x]).med)
          /\ IsSubsequence(resp.similar_formulations,
                           RecordsAt(resp.rows, IndicesWithout(Len(resp.rows), x)))

\* C6: POST /finder/search in lookup mode with n returned rows that all map:
\* similar_formulations is the row sequence with only the single exact-match
\* row removed, in store order (n - 1 records with an exact match, n
\* without); further exact matches and rows identical in content to the
\* exact-match row stay in it.  The exact-match row is the first row the
\* response's exact_match is the record of.
C6_OnlyExactRemoved ==
  (/\ resp.op = "search" /\ resp.status = 200 /\ LookupMode(resp.body)
   /\ \A i \in 1..Len(resp.rows) : create_medicine_from_db(resp.rows[i]).ok)
    => LET from == {i \in 1..Len(resp.rows) :
                      Some(create_medicine_from_db(resp.rows[i]).med) = resp.exact_match}
           x == IF IsNone(resp.exact_match) THEN 0 ELSE FirstOf(from)
       IN resp.similar_formulations
            = RecordsAt(resp.rows, IndicesWithout(Len(resp.rows), x))

\* the last request was a suggestion request for a valid field
ValidSuggestion ==
  resp.op = "suggestions" /\ resp.field \in {"Name", "Formulation", "Type", "Dosage"}

\* the suggestion query of the last request was sent and raised
SuggestionQueryRaised == ~resp.cache_hit /\ resp.calls # << >> /\ resp.calls[1] # "ok"

C8_CacheHitNoRoundTrip ==
  [][(/\ ValidSuggestion /\ resp.status = 200
      /\ nreq' = nreq + 1 /\ resp'.op = "suggestions"
      /\ resp'.field = resp.field /\ resp'.query = resp.query)
       => (resp'.suggestions = resp.suggestions /\ resp'.calls = << >>)]_vars

\* the truthy str values of the requested field among the returned rows
ReturnedValues ==
  {Val(resp.rows[i][resp.field]) :
     i \in {j \in 1..Len(resp.rows) :
              ~IsNone(resp.rows[j][resp.field]) /\ Val(resp.rows[j][resp.field]) # << >>}}

\* C9: the list returned for a suggestion request has at most 10 elements,
\* no duplicate, ascending lexicographic order, and is the first 10 elements
\* of the sorted set of distinct non-empty string values of the field among
\* the rows the store returned.
C9_SortedDistinctTop10 ==
  (ValidSuggestion /\ resp.status = 200)
    => LET L == resp.suggestions
           V == ReturnedValues
       IN /\ Len(L) <= 10
          /\ \A i \in 1..Len(L) : \A j \in 1..Len(L) : i < j => StrLess(L[i], L[j])
          /\ (~resp.cache_hit /\ resp.calls[1] = "ok")
               => /\ Len(L) = Min(Cardinality(V), 10)
                  /\ \A i \in 1..Len(L) : L[i] \in V
                  /\ \A v \in V : (\A i \in 1..Len(L) : L[i] # v)
                                    => \A i \in 1..Len(L) : StrLess(L[i], v)

\* C9 witness: the store returned more than 10 distinct values, not in
\* ascending order and with repetitions, and 10 were answered
C9_Witness ==
  /\ ValidSuggestion /\ resp.status = 200 /\ ~resp.cache_hit
  /\ Cardinality(ReturnedValues) > 10
  /\ Len(resp.rows) > Cardinality(ReturnedValues)
  /\ Len(resp.suggestions) = 10
  /\ \E i \in 1..(Len(resp.rows) - 1) :
       StrLess(Val(resp.rows[i + 1][resp.field]), Val(resp.rows[i][resp.field]))

\* the elements of a finite set of numbers, ascending
RECURSIVE Ascending(_)
Ascending(S) == IF S = {} THEN << >> ELSE <<FirstOf(S)>> \o Ascending(S \ {FirstOf(S)})

\* indices of the rows that map successfully
MappableRows(rows) == {i \in 1..Len(rows) : create_medicine_from_db(rows[i]).ok}

\* C10: GET /finder/medicines/by_type: when the store returns rows, some of
\* which fail record mapping, the response is 200 and holds exactly the
\* records of the rows that map, in store order.
C10_ByTypeKeepsValidRows ==
  (resp.op = "by_type" /\ resp.calls[2] = "ok")
    => /\ resp.status = 200
       /\ resp.rows = Execute(ByTypeQuery(request.type, request.limit, request.sort_order), store)
       /\ resp.medicines = RecordsAt(resp.rows, Ascending(MappableRows(resp.rows)))

\* C10 witness: a listing with limit 100 in which a row that fails mapping
\* lies between rows that map
C10_Witness ==
  /\ resp.op = "by_type" /\ resp.status = 200 /\ resp.limit = 100
  /\ \E i \in 1..Len(resp.rows) :
       /\ i \notin MappableRows(resp.rows)
       /\ \E j \in MappableRows(resp.rows) : j < i
       /\ \E j \in MappableRows(resp.rows) : j > i
  /\ Len(resp.medicines) = Cardinality(MappableRows(resp.rows))

\* the prices of the raw record that was mapped
RawBranded == Val(request.data[ColBranded])
RawGeneric == Val(request.data[ColGeneric])

\* a record was handed to create_medicine_from_db or to Medicine validation
Mapped == resp.op \in {"map", "validate"}

\* C11: mapping a raw record whose generic cost is strictly greater than
\* its branded cost always fails and produces no Medicine, whatever
\* cost_difference and savings the record carries or leaves out.
C11_GenericAboveBrandedFails ==
  (Mapped /\ RawGeneric > RawBranded) => (~resp.ok /\ resp.med = None)

\* C11 witness: create_medicine_from_db refused a record that has every
\* required field, non-negative prices with generic above branded, and
\* carries a non-negative cost difference and a savings value
C11_Witness ==
  /\ resp.op = "map" /\ ~resp.ok
  /\ HasValue(request.data, ColName)
  /\ RawBranded >= 0 /\ RawGeneric > RawBranded
  /\ HasValue(request.data, ColDifference) /\ Val(request.data[ColDifference]) >= 0
  /\ HasValue(request.data, ColSavings)

\* x is num / den percent rounded to one decimal, in tenths of a percent
\* (either neighbour when num / den percent lies half-way between two)
IsRoundedPercent(x, num, den) ==
  /\ 2 * (x * den - num * 1000) <= den
  /\ 2 * (num * 1000 - x * den) <= den

\* C12: for every raw record with all required fields and
\* branded >= generic >= 0, create_medicine_from_db gives a Medicine whose
\* cost_difference is branded - generic whether the record leaves
\* cost_difference out, carries null or carries another value; whose savings
\* is (branded - generic) / branded * 100 rounded to one decimal when
\* branded > 0; and whose savings stays absent when branded = 0 and the
\* record has no savings.
C12_DerivedCostFields ==
  (/\ resp.op = "map" /\ HasValue(request.data, ColName)
   /\ RawBranded >= RawGeneric /\ RawGeneric >= 0)
    => /\ resp.ok
       /\ resp.med.cost_difference = Some(RawBranded - RawGeneric)
       /\ RawBranded > 0
            => /\ ~IsNone(resp.med.savings)
               /\ IsRoundedPercent(Val(resp.med.savings),
                                   RawBranded - RawGeneric, RawBranded)
       /\ (RawBranded = 0 /\ ~HasValue(request.data, ColSavings))
            => IsNone(resp.med.savings)

\* C12 witness: a record mapped whose cost difference and savings both
\* disagree with its prices, and whose savings percentage has more than one
\* decimal
C12_Witness ==
  /\ resp.op = "map" /\ resp.ok
  /\ RawBranded > RawGeneric /\ RawGeneric > 0
  /\ HasValue(request.data, ColDifference)
  /\ Val(request.data[ColDifference]) # RawBranded - RawGeneric
  /\ HasValue(request.data, ColSavings)
  /\ Val(request.data[ColSavings]) # Val(resp.med.savings)
  /\ ((RawBranded - RawGeneric) * 1000) % RawBranded # 0
  /\ resp.med.cost_difference = Some(RawBranded - RawGeneric)

\* the last request was a search whose body passed validation
SearchAccepted == resp.op = "search" /\ resp.status # ValidationStatus

\* C13: POST /finder/search: when a store call of the request raises a
\* connection error, the response status is 503.
C13_ConnectionErrorIs503 ==
  (SearchAccepted /\ \E i \in 1..Len(resp.calls) : resp.calls[i] = "conn_error")
    => resp.status = 503

\* indices of the rows whose mapping raises
UnmappableRows(rows) == {i \in 1..Len(rows) : ~create_medicine_from_db(rows[i]).ok}

\* C14: POST /finder/search, in browse mode and in lookup mode: if the
\* mapping of any returned row fails, the request ends with status 500 and
\* carries no exact_match and no similar_formulations; the remaining rows
\* are never answered with a 200.
C14_MappingFailureIsFatal ==
  (/\ SearchAccepted /\ resp.calls[2] = "ok"
   /\ UnmappableRows(Execute(SearchQuery(resp.values, resp.sort_order), store)) # {})
    => /\ resp.status = 500
       /\ IsNone(resp.exact_match)
       /\ resp.similar_formulations = << >>

\* C14 witness: a lookup whose exact-match row maps while a later returned
\* row does not, answered with 500
C14_Witness ==
  /\ SearchAccepted /\ resp.calls[2] = "ok" /\ LookupMode(resp.body)
  /\ resp.status = 500
  /\ \A i \in 1..Len(resp.rows) :
       ~IsNone(resp.rows[i][ColName]) /\ ~IsNone(resp.rows[i][ColFormulation])
  /\ ExactRows(resp.rows, resp.body) # {}
  /\ FirstOf(ExactRows(resp.rows, resp.body)) \notin UnmappableRows(resp.rows)
  /\ \E i \in UnmappableRows(resp.rows) : i > FirstOf(ExactRows(resp.rows, resp.body))
  /\ \E i \in 1..Len(resp.rows) : i \notin UnmappableRows(resp.rows)

\* C15: SearchRequest validation accepts every request in which at least
\* one of name, formulation, type, dosage is non-empty after trimming,
\* whichever field it is and whether the others are absent, null or
\* whitespace-only; the whitespace-only fields are then unset.
C15_AnyNonEmptyFieldAccepted ==
  (/\ resp.op = "search"
   /\ \E f \in {"name", "formulation", "type", "dosage"} : FieldSet(resp.body, f))
    => /\ resp.status # ValidationStatus
       /\ \A f \in DOMAIN resp.body : ~FieldSet(resp.body, f) => IsNone(resp.values[f])

\* C16: once get_cached_suggestions has returned a list for a key
\* (field, query_text), also the empty list it returns when the store
\* raised, every later call with that key returns the same list without
\* contacting the store, whatever the table holds by then, as long as the
\* cache is below its capacity of 1000 entries.  Step by step: an entry of
\* the cache stays in it; a call leaves an entry with the list it returned;
\* a call whose key has an entry returns that entry's list from the cache
\* (the only round-trip of such a request is the get_all_types call that
\* get_suggestions itself makes for Type).
C16_CachedListPersists ==
  [][/\ Len(cache) < CacheMaxSize
          => \A i \in 1..Len(cache) : \E j \in 1..Len(cache') : cache'[j] = cache[i]
     /\ (nreq' = nreq + 1 /\ resp'.field \in valid_fields)
          => /\ \E j \in 1..Len(cache') :
                  cache'[j] = [key |-> <<resp'.field, resp'.query>>,
                               value |-> resp'.suggestions]
             /\ \A i \in 1..Len(cache) :
                  cache[i].key = <<resp'.field, resp'.query>>
                    => /\ resp'.suggestions = cache[i].value
                       /\ resp'.cache_hit
                       /\ Len(resp'.calls) = (IF resp'.field = "Type" THEN 1 ELSE 0)]_vars

\* C16 witness: a request answered from the cache with the empty list an
\* earlier failed round-trip left there, while the table holds values for it
C16_Witness ==
  /\ ValidSuggestion /\ resp.cache_hit /\ nreq >= 2
  /\ resp.suggestions = << >>
  /\ ComputeSuggestions(resp.field, resp.query, "ok", store).value # << >>
  /\ \A table \in CacheStores :
       ComputeSuggestions(resp.field, resp.query, "ok", table).value # << >>

====
